---- MODULE Spec2Model ----
(***************************************************************************)
(* A model of yt-url.py: the YouTubeSearcher pipeline (build the search    *)
(* URL, fetch the page, extract the first video id, build the video URL)   *)
(* and the command-line entry point main().                                *)
(*                                                                         *)
(* Text is a sequence of one-character strings.  Exception messages and    *)
(* output lines are sequences of message pieces, so that an f-string is    *)
(* the concatenation of its pieces.                                        *)
(***************************************************************************)
EXTENDS Integers, Sequences, FiniteSets, TLC

\* Longest query given to _build_search_url on its own.
MaxQueryLen == 3
\* Largest number of fragments of a page given to the extractor on its own.
MaxFrags == 3
\* Longest query of a whole run of the command-line program.
MaxCliQueryLen == 1
\* Largest number of fragments of a page fetched in a whole run.
MaxCliFrags == 2

----------------------------------------------------------------------------
\* Sequence helpers

RECURSIVE Flatten(_)
Flatten(ss) == IF ss = <<>> THEN <<>> ELSE Head(ss) \o Flatten(Tail(ss))

SeqsUpTo(S, n) == UNION {[1..k -> S] : k \in 0..n}

Range(s) == {s[i] : i \in 1..Len(s)}

\* pre occurs in text starting at position i
OccursAt(text, i, pre) ==
    /\ i >= 1
    /\ i + Len(pre) - 1 <= Len(text)
    /\ \A k \in 1..Len(pre) : text[i + k - 1] = pre[k]

Contains(text, sub) == \E i \in 1..(Len(text) + 1) : OccursAt(text, i, sub)

----------------------------------------------------------------------------
\* Class constants of YouTubeSearcher

BASE_SEARCH_URL == <<"h","t","t","p","s",":","/","/","w","w","w",".","y","o","u","t","u","b","e",".","c","o","m","/","r","e","s","u","l","t","s">>
BASE_VIDEO_URL == <<"h","t","t","p","s",":","/","/","w","w","w",".","y","o","u","t","u","b","e",".","c","o","m","/","w","a","t","c","h">>

----------------------------------------------------------------------------
\* str.strip(): remove leading and trailing whitespace

\* the whitespace characters among the characters the model uses
Whitespace == {" ", "\t"}

RECURSIVE lstrip(_)
lstrip(s) == IF s # <<>> /\ Head(s) \in Whitespace THEN lstrip(Tail(s)) ELSE s

RECURSIVE rstrip(_)
rstrip(s) ==
    IF s # <<>> /\ s[Len(s)] \in Whitespace
    THEN rstrip(SubSeq(s, 1, Len(s) - 1))
    ELSE s

strip_nostrip(s) == s

strip(s) == rstrip(lstrip(s))

----------------------------------------------------------------------------
\* urllib.parse.urlencode({'search_query': query}), as _build_search_url
\* calls it: quote_via = quote_plus, safe = '', encoding utf-8.

\* The UTF-8 bytes of a character; "U+00E9" stands for the one character
\* LATIN SMALL LETTER E WITH ACUTE.
Utf8(c) ==
    CASE c = " " -> <<32>>
      [] c = "\t" -> <<9>>
      [] c = "&" -> <<38>>
      [] c = "+" -> <<43>>
      [] c = "/" -> <<47>>
      [] c = "=" -> <<61>>
      [] c = "_" -> <<95>>
      [] c = "a" -> <<97>>
      [] c = "c" -> <<99>>
      [] c = "e" -> <<101>>
      [] c = "h" -> <<104>>
      [] c = "q" -> <<113>>
      [] c = "r" -> <<114>>
      [] c = "s" -> <<115>>
      [] c = "u" -> <<117>>
      [] c = "y" -> <<121>>
      [] c = "U+00E9" -> <<195, 169>>

AsciiChars == {" ", "\t", "&", "+", "/", "=", "_", "a", "c", "e", "h", "q", "r", "s", "u", "y"}

\* chr(b) for a byte of one of the ASCII characters above
Chr(b) == CHOOSE c \in AsciiChars : Utf8(c) = <<b>>

\* urllib.parse._ALWAYS_SAFE: letters, digits and "_.-~", as byte values
AlwaysSafe == (48..57) \cup (65..90) \cup (97..122) \cup {95, 46, 45, 126}

HexDigits == <<"0","1","2","3","4","5","6","7","8","9","A","B","C","D","E","F">>

\* '%{:02X}'.format(b)
PercentByte(b) == <<"%", HexDigits[(b \div 16) + 1], HexDigits[(b % 16) + 1]>>

RECURSIVE QuoteBytes(_, _)
QuoteBytes(bs, safe) ==
    IF bs = <<>> THEN <<>>
    ELSE (IF Head(bs) \in AlwaysSafe \cup safe
          THEN <<Chr(Head(bs))>>
          ELSE PercentByte(Head(bs))) \o QuoteBytes(Tail(bs), safe)

RECURSIVE Encode(_)
Encode(s) == IF s = <<>> THEN <<>> ELSE Utf8(Head(s)) \o Encode(Tail(s))

\* urllib.parse.quote(s, safe): s.encode('utf-8'), then quote_from_bytes
quote(s, safe) == QuoteBytes(Encode(s), safe)

\* str.replace(old, new) for one-character old and new
Replace(s, old, new) == [i \in 1..Len(s) |-> IF s[i] = old THEN new ELSE s[i]]

\* urllib.parse.quote_plus(s, safe)
quote_plus(s, safe) ==
    IF " " \in Range(s)
    THEN Replace(quote(s, safe \cup {32}), " ", "+")
    ELSE quote(s, safe)

SearchQueryKey == <<"s","e","a","r","c","h","_","q","u","e","r","y">>

\* a urlencode that leaves "/" alone, as quote's default safe='/' would
urlencode_slash(key, value) == quote_plus(key, {47}) \o <<"=">> \o quote_plus(value, {47})

\* a urlencode that uses quote instead of quote_plus: a space becomes %20
urlencode_quote(key, value) == quote(key, {}) \o <<"=">> \o quote(value, {})

\* urlencode of a one-entry dict
urlencode(key, value) == quote_plus(key, {}) \o <<"=">> \o quote_plus(value, {})

_build_search_url(query) == BASE_SEARCH_URL \o <<"?">> \o urlencode(SearchQueryKey, query)

----------------------------------------------------------------------------
\* _extract_first_video_id: the three patterns and re.findall

\* the character class [a-zA-Z0-9_-]
IdChars ==
    {"a","b","c","d","e","f","g","h","i","j","k","l","m","n","o","p","q","r","s","t","u","v","w","x","y","z"}
    \cup {"A","B","C","D","E","F","G","H","I","J","K","L","M","N","O","P","Q","R","S","T","U","V","W","X","Y","Z"}
    \cup {"0","1","2","3","4","5","6","7","8","9"}
    \cup {"_", "-"}

\* the repetition count {11}
IdLen == 11

JsonPrefix == <<"\"","v","i","d","e","o","I","d","\"",":","\"">>
WatchPrefix == <<"w","a","t","c","h","?","v","=">>
SlashWatchPrefix == <<"/","w","a","t","c","h","?","v","=">>

\* A pattern is a literal prefix, a group of IdLen characters of the class,
\* and a literal suffix.
patterns_swapped == <<
    [pre |-> JsonPrefix, post |-> <<"\"">>],
    [pre |-> SlashWatchPrefix, post |-> <<>>],
    [pre |-> WatchPrefix, post |-> <<>>] >>

patterns == <<
    [pre |-> JsonPrefix, post |-> <<"\"">>],
    [pre |-> WatchPrefix, post |-> <<>>],
    [pre |-> SlashWatchPrefix, post |-> <<>>] >>

PatLen(p) == Len(p.pre) + IdLen + Len(p.post)

\* the captured group of a match of p that starts at position i
Group(p, text, i) == SubSeq(text, i + Len(p.pre), i + Len(p.pre) + IdLen - 1)

\* a MatchAt that accepts any IdLen characters as the group
MatchAt_anychar(p, text, i) ==
    /\ OccursAt(text, i, p.pre)
    /\ i + PatLen(p) - 1 <= Len(text)
    /\ OccursAt(text, i + Len(p.pre) + IdLen, p.post)

\* re.match of p at position i of text
MatchAt(p, text, i) ==
    /\ OccursAt(text, i, p.pre)
    /\ i + PatLen(p) - 1 <= Len(text)
    /\ \A k \in 0..(IdLen - 1) : text[i + Len(p.pre) + k] \in IdChars
    /\ OccursAt(text, i + Len(p.pre) + IdLen, p.post)

\* re.findall(p, text) from position i on: the groups of the
\* non-overlapping matches, in document order
RECURSIVE FindAllFrom(_, _, _)
FindAllFrom(p, text, i) ==
    IF i > Len(text) THEN <<>>
    ELSE IF MatchAt(p, text, i)
         THEN <<Group(p, text, i)>> \o FindAllFrom(p, text, i + PatLen(p))
         ELSE FindAllFrom(p, text, i + 1)

findall(p, text) == FindAllFrom(p, text, 1)

NoResultsMsg == <<"No video results found for the given search query">>

\* the loop over a pattern list ps: [ok |-> TRUE, id |-> matches[0]] for
\* the first pattern with matches, [ok |-> FALSE, ...] when the loop falls
\* through to the raise
RECURSIVE ExtractWith(_, _)
ExtractWith(ps, html_content) ==
    IF ps = <<>> THEN [ok |-> FALSE, id |-> <<>>]
    ELSE LET matches == findall(Head(ps), html_content)
         IN  IF matches # <<>>
             THEN [ok |-> TRUE, id |-> matches[1]]
             ELSE ExtractWith(Tail(ps), html_content)

\* an extractor that returns the last match instead of the first
RECURSIVE ExtractLast(_, _)
ExtractLast(ps, html_content) ==
    IF ps = <<>> THEN [ok |-> FALSE, id |-> <<>>]
    ELSE LET matches == findall(Head(ps), html_content)
         IN  IF matches # <<>>
             THEN [ok |-> TRUE, id |-> matches[Len(matches)]]
             ELSE ExtractLast(Tail(ps), html_content)

_extract_first_video_id_last(html_content) == ExtractLast(patterns, html_content)

_extract_first_video_id(html_content) == ExtractWith(patterns, html_content)

_build_video_url_amp(video_id) == BASE_VIDEO_URL \o <<"&", "v", "=">> \o video_id

_build_video_url(video_id) == BASE_VIDEO_URL \o <<"?", "v", "=">> \o video_id

----------------------------------------------------------------------------
\* Exceptions

\* the classes of the model that derive from Exception; KeyboardInterrupt
\* derives from BaseException only
ExceptionClasses ==
    {"YouTubeSearchError", "TimeoutError", "URLError", "HTTPError", "UnicodeDecodeError"}

IsException_all(type) == TRUE

\* isinstance(e, Exception)
IsException(type) == type \in ExceptionClasses

NoExc == [type |-> "none", msg |-> <<>>]

KeyboardInterrupt == [type |-> "KeyboardInterrupt", msg |-> <<>>]

EmptyQueryMsg == <<"Search query cannot be empty">>

SearchFailedPrefix == <<"Search failed: ">>

YouTubeSearchError(msg) == [type |-> "YouTubeSearchError", msg |-> msg]

\* what urlopen(...).read().decode('utf-8') can raise, with str(e)
FetchFailures == {
    [type |-> "TimeoutError", msg |-> <<"timed out">>],
    [type |-> "URLError", msg |-> <<"<urlopen error [Errno 111] Connection refused>">>],
    [type |-> "HTTPError", msg |-> <<"HTTP Error 404: Not Found">>],
    [type |-> "UnicodeDecodeError",
     msg |-> <<"'utf-8' codec can't decode byte 0xff in position 0: invalid start byte">>] }

\* a handler that lets a YouTubeSearchError raised inside the try through
SearchExcept_passthrough(e) ==
    IF e.type = "YouTubeSearchError" THEN e
    ELSE IF IsException(e.type)
         THEN YouTubeSearchError(SearchFailedPrefix \o e.msg)
         ELSE e

\* a handler that drops str(e)
SearchExcept_nomsg(e) ==
    IF IsException(e.type) THEN YouTubeSearchError(SearchFailedPrefix) ELSE e

\* the exception that leaves search's try block when e is raised inside it
SearchExcept(e) ==
    IF IsException(e.type)
    THEN YouTubeSearchError(SearchFailedPrefix \o e.msg)
    ELSE e

\* except clauses whose YouTubeSearchError clause returns 0
MainExcept_zero(e) ==
    IF e.type = "YouTubeSearchError"
    THEN [caught |-> TRUE, line |-> <<"Error: ">> \o e.msg, code |-> 0]
    ELSE [caught |-> TRUE, line |-> <<"\nSearch cancelled by user">>, code |-> 1]

\* main's except clauses: the line printed to sys.stderr and the value
\* returned; an exception no clause catches leaves main
MainExcept(e) ==
    IF e.type = "YouTubeSearchError"
    THEN [caught |-> TRUE, line |-> <<"Error: ">> \o e.msg, code |-> 1]
    ELSE IF e.type = "KeyboardInterrupt"
    THEN [caught |-> TRUE, line |-> <<"\nSearch cancelled by user">>, code |-> 1]
    ELSE IF IsException(e.type)
    THEN [caught |-> TRUE, line |-> <<"Unexpected error: ">> \o e.msg, code |-> 1]
    ELSE [caught |-> FALSE, line |-> <<>>, code |-> 1]

----------------------------------------------------------------------------
\* Inputs

QueryChars == {" ", "\t", "a", "&", "=", "+", "/", "U+00E9"}

Queries == SeqsUpTo(QueryChars, MaxQueryLen)

CliQueries == SeqsUpTo(QueryChars, MaxCliQueryLen)

FragJson == <<"\"","v","i","d","e","o","I","d","\"",":","\"","d","Q","w","4","w","9","W","g","X","c","Q">>
FragWatch == <<"w","a","t","c","h","?","v","=","a","b","c","_","-","2","3","4","5","6","7">>
FragWatchShort == <<"w","a","t","c","h","?","v","=","a","b","c","_","-","2","3","4","5","6">>

\* pieces of page text: a JSON field without its closing quote, the quote,
\* a watch link, a watch link one character short, and single characters
Fragments == {FragJson, <<"\"">>, FragWatch, FragWatchShort, <<"/">>, <<"Z">>, <<"!">>}

Pages == {Flatten(fs) : fs \in SeqsUpTo(Fragments, MaxFrags)}

CliPages == {Flatten(fs) : fs \in SeqsUpTo(Fragments, MaxCliFrags)}

UsageLines == <<"usage: yt-url [-h] [--verbose] query",
                "yt-url: error: the following arguments are required: query">>

HelpLines == <<"usage: yt-url [-h] [--verbose] query",
               "Search YouTube and return the URL of the top result">>

----------------------------------------------------------------------------
\* State

VARIABLES
    pc,            \* the statement main() or search() is at
    parsed,        \* how parser.parse_args() ended
    query,         \* args.query
    verbose,       \* args.verbose
    search_url,    \* search's local search_url
    html_content,  \* search's local html_content
    video_id,      \* search's local video_id
    video_url,     \* main's local video_url
    fetchCount,    \* number of urlopen calls made
    fetchExc,      \* the exception _fetch_page raised, if any
    searchResult,  \* how the call of search ended
    interruptedAt, \* the statement a KeyboardInterrupt arrived at, if any
    steps,         \* the pipeline steps search has run, in order
    stdout,        \* what was printed to sys.stdout
    stderr,        \* what was printed to sys.stderr
    exitCode       \* the process's exit status, -1 while it runs

vars == <<pc, parsed, query, verbose, search_url, html_content, video_id, video_url,
          fetchCount, fetchExc, searchResult, interruptedAt, steps,
          stdout, stderr, exitCode>>

locals == <<search_url, html_content, video_id, video_url>>

NoResult == [status |-> "none", value |-> <<>>, exc |-> NoExc]

Init ==
    /\ pc = "parse"
    /\ parsed = "none"
    /\ query = <<>>
    /\ verbose = FALSE
    /\ search_url = <<>>
    /\ html_content = <<>>
    /\ video_id = <<>>
    /\ video_url = <<>>
    /\ fetchCount = 0
    /\ fetchExc = NoExc
    /\ searchResult = NoResult
    /\ interruptedAt = "none"
    /\ steps = <<>>
    /\ stdout = <<>>
    /\ stderr = <<>>
    /\ exitCode = -1

\* an exception e reaches main's try block: the matching except clause
\* prints its line and main returns its code
MainRaise(e) ==
    /\ stderr' = Append(stderr, MainExcept(e).line)
    /\ exitCode' = MainExcept(e).code
    /\ pc' = "exited"
    /\ UNCHANGED stdout

\* e is raised inside search's try block
RaiseInSearchTry(e) ==
    LET out == SearchExcept(e)
    IN  /\ searchResult' = [status |-> "raised", value |-> <<>>, exc |-> out]
        /\ MainRaise(out)

\* parser.parse_args() returns the namespace
ParseArgs ==
    /\ pc = "parse"
    /\ \E q \in CliQueries, v \in BOOLEAN : query' = q /\ verbose' = v
    /\ parsed' = "namespace"
    /\ pc' = "try"
    /\ UNCHANGED <<locals, fetchCount, fetchExc, searchResult, interruptedAt,
                   steps, stdout, stderr, exitCode>>

\* parser.parse_args() rejects the command line: usage on stderr, exit 2
ParseArgsError ==
    /\ pc = "parse"
    /\ stderr' = stderr \o <<UsageLines>>
    /\ exitCode' = 2
    /\ parsed' = "error"
    /\ pc' = "exited"
    /\ UNCHANGED <<query, verbose, locals, fetchCount, fetchExc, searchResult,
                   interruptedAt, steps, stdout>>

\* parser.parse_args() sees -h: help on stdout, exit 0
ParseArgsHelp ==
    /\ pc = "parse"
    /\ stdout' = stdout \o <<HelpLines>>
    /\ exitCode' = 0
    /\ parsed' = "help"
    /\ pc' = "exited"
    /\ UNCHANGED <<query, verbose, locals, fetchCount, fetchExc, searchResult,
                   interruptedAt, steps, stderr>>

\* searcher = YouTubeSearcher(); the verbose line; the call of search
EnterTry ==
    /\ pc = "try"
    /\ stderr' = IF verbose THEN Append(stderr, <<"Searching for: ">> \o query)
                 ELSE stderr
    /\ pc' = "search"
    /\ UNCHANGED <<parsed, query, verbose, locals, fetchCount, fetchExc, searchResult,
                   interruptedAt, steps, stdout, exitCode>>

\* if not query.strip(): raise YouTubeSearchError(...), outside the try
SearchEmpty ==
    /\ pc = "search"
    /\ strip(query) = <<>>
    /\ searchResult' = [status |-> "raised", value |-> <<>>,
                        exc |-> YouTubeSearchError(EmptyQueryMsg)]
    /\ MainRaise(YouTubeSearchError(EmptyQueryMsg))
    /\ UNCHANGED <<parsed, query, verbose, locals, fetchCount, fetchExc, interruptedAt, steps>>

\* the query is not blank: search enters its try block
SearchEnter ==
    /\ pc = "search"
    /\ strip(query) # <<>>
    /\ pc' = "build_url"
    /\ UNCHANGED <<parsed, query, verbose, locals, fetchCount, fetchExc, searchResult,
                   interruptedAt, steps, stdout, stderr, exitCode>>

\* search_url = self._build_search_url(query)
BuildSearchUrl ==
    /\ pc = "build_url"
    /\ search_url' = _build_search_url(query)
    /\ steps' = Append(steps, "build_url")
    /\ pc' = "fetch"
    /\ UNCHANGED <<parsed, query, verbose, html_content, video_id, video_url, fetchCount,
                   fetchExc, searchResult, interruptedAt, stdout, stderr, exitCode>>

\* html_content = self._fetch_page(search_url): the request succeeds
FetchOk ==
    /\ pc = "fetch"
    /\ fetchCount' = fetchCount + 1
    /\ \E page \in CliPages : html_content' = page
    /\ steps' = Append(steps, "fetch_ok")
    /\ pc' = "extract"
    /\ UNCHANGED <<parsed, query, verbose, search_url, video_id, video_url, fetchExc,
                   searchResult, interruptedAt, stdout, stderr, exitCode>>

\* a fetch whose failure is answered by fetching again
FetchFailRetry ==
    /\ pc = "fetch"
    /\ fetchCount < 2
    /\ fetchCount' = fetchCount + 1
    /\ \E e \in FetchFailures : fetchExc' = e
    /\ steps' = Append(steps, "fetch_fail")
    /\ pc' = "fetch"
    /\ UNCHANGED <<parsed, query, verbose, locals, searchResult, interruptedAt,
                   stdout, stderr, exitCode>>

\* self._fetch_page(search_url) raises; the except clause wraps the error
FetchFail ==
    /\ pc = "fetch"
    /\ fetchCount' = fetchCount + 1
    /\ \E e \in FetchFailures :
          /\ fetchExc' = e
          /\ RaiseInSearchTry(e)
    /\ steps' = Append(steps, "fetch_fail")
    /\ UNCHANGED <<parsed, query, verbose, locals, interruptedAt>>

\* a KeyboardInterrupt arrives while urlopen is blocked
FetchInterrupted ==
    /\ pc = "fetch"
    /\ fetchCount' = fetchCount + 1
    /\ interruptedAt' = "in_fetch"
    /\ RaiseInSearchTry(KeyboardInterrupt)
    /\ steps' = Append(steps, "fetch_interrupted")
    /\ UNCHANGED <<parsed, query, verbose, locals, fetchExc>>

\* video_id = self._extract_first_video_id(html_content): a pattern matches
ExtractOk ==
    /\ pc = "extract"
    /\ _extract_first_video_id(html_content).ok
    /\ video_id' = _extract_first_video_id(html_content).id
    /\ steps' = Append(steps, "extract_ok")
    /\ pc' = "build_video"
    /\ UNCHANGED <<parsed, query, verbose, search_url, html_content, video_url, fetchCount,
                   fetchExc, searchResult, interruptedAt, stdout, stderr, exitCode>>

\* no pattern matches: _extract_first_video_id raises inside search's try
ExtractFail ==
    /\ pc = "extract"
    /\ ~ _extract_first_video_id(html_content).ok
    /\ RaiseInSearchTry(YouTubeSearchError(NoResultsMsg))
    /\ steps' = Append(steps, "extract_fail")
    /\ UNCHANGED <<parsed, query, verbose, locals, fetchCount, fetchExc, interruptedAt>>

\* return self._build_video_url(video_id); main binds video_url
BuildVideoUrl ==
    /\ pc = "build_video"
    /\ searchResult' = [status |-> "returned", value |-> _build_video_url(video_id),
                        exc |-> NoExc]
    /\ video_url' = _build_video_url(video_id)
    /\ steps' = Append(steps, "build_video")
    /\ pc' = "print"
    /\ UNCHANGED <<parsed, query, verbose, search_url, html_content, video_id, fetchCount,
                   fetchExc, interruptedAt, stdout, stderr, exitCode>>

\* print(video_url)
PrintUrl ==
    /\ pc = "print"
    /\ stdout' = Append(stdout, video_url)
    /\ pc' = "return"
    /\ UNCHANGED <<parsed, query, verbose, locals, fetchCount, fetchExc, searchResult,
                   interruptedAt, steps, stderr, exitCode>>

\* return 0
Return0 ==
    /\ pc = "return"
    /\ exitCode' = 0
    /\ pc' = "exited"
    /\ UNCHANGED <<parsed, query, verbose, locals, fetchCount, fetchExc, searchResult,
                   interruptedAt, steps, stdout, stderr>>

\* the statements of search's try block
InSearch == {"build_url", "fetch", "extract", "build_video"}

\* the statements of main's try block outside the call of search
InMainTry == {"try", "print", "return"}

\* a KeyboardInterrupt arrives between two statements of search's try block
InterruptSearch ==
    /\ pc \in InSearch
    /\ interruptedAt' = pc
    /\ RaiseInSearchTry(KeyboardInterrupt)
    /\ UNCHANGED <<parsed, query, verbose, locals, fetchCount, fetchExc, steps>>

\* a KeyboardInterrupt arrives in main's try block, outside search
InterruptMain ==
    /\ pc \in InMainTry
    /\ interruptedAt' = pc
    /\ MainRaise(KeyboardInterrupt)
    /\ UNCHANGED <<parsed, query, verbose, locals, fetchCount, fetchExc, searchResult, steps>>

Next ==
    \/ ParseArgs
    \/ ParseArgsError
    \/ ParseArgsHelp
    \/ EnterTry
    \/ SearchEmpty
    \/ SearchEnter
    \/ BuildSearchUrl
    \/ FetchOk
    \/ FetchFail
    \/ FetchInterrupted
    \/ ExtractOk
    \/ ExtractFail
    \/ BuildVideoUrl
    \/ PrintUrl
    \/ Return0
    \/ InterruptSearch
    \/ InterruptMain

Spec == Init /\ [][Next]_vars

----------------------------------------------------------------------------
\* _build_search_url on its own: search has entered its try block with a
\* query that is not blank

InitUrl ==
    /\ pc = "build_url"
    /\ parsed = "namespace"
    /\ query \in {q \in Queries : strip(q) # <<>>}
    /\ verbose = FALSE
    /\ search_url = <<>>
    /\ html_content = <<>>
    /\ video_id = <<>>
    /\ video_url = <<>>
    /\ fetchCount = 0
    /\ fetchExc = NoExc
    /\ searchResult = NoResult
    /\ interruptedAt = "none"
    /\ steps = <<>>
    /\ stdout = <<>>
    /\ stderr = <<>>
    /\ exitCode = -1

NextUrl == BuildSearchUrl

SpecUrl == InitUrl /\ [][NextUrl]_vars

\* _extract_first_video_id and _build_video_url on their own: the page has
\* been fetched

InitPage ==
    /\ pc = "extract"
    /\ parsed = "namespace"
    /\ query = <<"a">>
    /\ verbose = FALSE
    /\ search_url = _build_search_url(<<"a">>)
    /\ html_content \in Pages
    /\ video_id = <<>>
    /\ video_url = <<>>
    /\ fetchCount = 1
    /\ fetchExc = NoExc
    /\ searchResult = NoResult
    /\ interruptedAt = "none"
    /\ steps = <<"build_url", "fetch_ok">>
    /\ stdout = <<>>
    /\ stderr = <<>>
    /\ exitCode = -1

NextPage ==
    \/ ExtractOk
    \/ ExtractFail
    \/ BuildVideoUrl

SpecPage == InitPage /\ [][NextPage]_vars

----------------------------------------------------------------------------
\* Vocabulary of the properties

\* the trimmed form of q is empty
IsBlank(q) == \A i \in 1..Len(q) : q[i] \in {" ", "\t"}

\* the error kinds, read off the exception class and message
Kind(e) ==
    IF e.type = "YouTubeSearchError" /\ e.msg = EmptyQueryMsg THEN "EmptyQuery"
    ELSE IF e.type = "YouTubeSearchError" /\ e.msg = NoResultsMsg THEN "NoResults"
    ELSE IF e.type = "YouTubeSearchError" /\ OccursAt(e.msg, 1, SearchFailedPrefix)
    THEN "SearchFailed"
    ELSE IF e.type = "KeyboardInterrupt" THEN "Cancelled"
    ELSE "Unexpected"

\* search has been called
SearchCalled == pc \in InSearch \cup {"print", "return"} \/ searchResult.status # "none"

\* the call of search has ended
SearchEnded == searchResult.status # "none"

JsonPat == [pre |-> JsonPrefix, post |-> <<"\"">>]
WatchPat == [pre |-> WatchPrefix, post |-> <<>>]
SlashPat == [pre |-> SlashWatchPrefix, post |-> <<>>]

HasMatch(p, text) == \E i \in 1..Len(text) : MatchAt(p, text, i)

\* the position of the earliest match of p in text
FirstPos(p, text) ==
    CHOOSE i \in 1..Len(text) :
        MatchAt(p, text, i) /\ \A j \in 1..(i - 1) : ~MatchAt(p, text, j)

FirstId(p, text) == Group(p, text, FirstPos(p, text))

AnyMatch(text) ==
    HasMatch(JsonPat, text) \/ HasMatch(WatchPat, text) \/ HasMatch(SlashPat, text)

\* the identifier the ordered scan is to give
ExpectedId(text) ==
    IF HasMatch(JsonPat, text) THEN FirstId(JsonPat, text)
    ELSE IF HasMatch(WatchPat, text) THEN FirstId(WatchPat, text)
    ELSE FirstId(SlashPat, text)

FetchSteps == {"fetch_ok", "fetch_fail", "fetch_interrupted"}
ExtractSteps == {"extract_ok", "extract_fail"}

CancelledLine == <<"\nSearch cancelled by user">>

----------------------------------------------------------------------------
\* C1: once search has been called with a query whose trimmed form is empty,
\* it has failed with the EmptyQuery error, and no fetch was attempted and no
\* pipeline step ran.
C1_BlankQueryNoFetch ==
    IsBlank(query) =>
        /\ fetchCount = 0
        /\ steps = <<>>
        /\ SearchCalled =>
              /\ searchResult.status = "raised"
              /\ Kind(searchResult.exc) = "EmptyQuery"

C1_Witness ==
    /\ query \in {<<" ">>, <<"\t">>}
    /\ searchResult.status = "raised"
    /\ Kind(searchResult.exc) = "EmptyQuery"
    /\ fetchCount = 0
    /\ pc = "exited"

\* C2: the identifier the extractor returns is the earliest match of the
\* first of the patterns JSON field, watch?v=, /watch?v= that matches the
\* page anywhere; the extractor returns one exactly when some pattern
\* matches.
C2_FirstMatchOfFirstPattern ==
    /\ pc = "build_video" =>
          /\ AnyMatch(html_content)
          /\ video_id = ExpectedId(html_content)
          /\ HasMatch(JsonPat, html_content) => video_id = FirstId(JsonPat, html_content)
          /\ (~HasMatch(JsonPat, html_content) /\ HasMatch(WatchPat, html_content))
                => video_id = FirstId(WatchPat, html_content)
    /\ "extract_fail" \in Range(steps) => ~AnyMatch(html_content)

\* a JSON field match wins although a watch?v= match comes earlier
C2_Witness ==
    /\ pc = "build_video"
    /\ HasMatch(JsonPat, html_content)
    /\ HasMatch(WatchPat, html_content)
    /\ FirstPos(WatchPat, html_content) < FirstPos(JsonPat, html_content)
    /\ video_id = FirstId(JsonPat, html_content)
    /\ video_id # FirstId(WatchPat, html_content)

\* C3 as stated: when the fetch succeeded and no pattern matches the page,
\* the error search raises is of kind NoResults.
C3_SurfacesNoResults ==
    (/\ SearchEnded
     /\ ~IsBlank(query)
     /\ "fetch_ok" \in Range(steps)
     /\ ~AnyMatch(html_content)
     /\ interruptedAt = "none")
        => /\ searchResult.status = "raised"
           /\ Kind(searchResult.exc) = "NoResults"

\* C3 amended: in that case the error search raises is of kind SearchFailed
\* and its message ends with the no-results message.
C3_SurfacesSearchFailed ==
    (/\ SearchEnded
     /\ ~IsBlank(query)
     /\ "fetch_ok" \in Range(steps)
     /\ ~AnyMatch(html_content)
     /\ interruptedAt = "none")
        => /\ searchResult.status = "raised"
           /\ Kind(searchResult.exc) = "SearchFailed"
           /\ searchResult.exc.msg = SearchFailedPrefix \o NoResultsMsg

C3_Witness ==
    /\ pc = "exited"
    /\ "extract_fail" \in Range(steps)
    /\ html_content # <<>>
    /\ ~AnyMatch(html_content)
    /\ searchResult.status = "raised"

\* C4: when the fetch raised a timeout, connection, HTTP or decoding
\* failure, search has failed with a YouTubeSearchError of kind SearchFailed
\* whose message contains the failure's message; it has not returned.
C4_FetchFailureIsSearchFailed ==
    fetchExc # NoExc =>
        /\ searchResult.status = "raised"
        /\ searchResult.exc.type = "YouTubeSearchError"
        /\ Kind(searchResult.exc) = "SearchFailed"
        /\ fetchExc.msg # <<>>
        /\ Contains(searchResult.exc.msg, fetchExc.msg)

C4_Witness ==
    /\ fetchExc.type = "TimeoutError"
    /\ searchResult.status = "raised"
    /\ Kind(searchResult.exc) = "SearchFailed"
    /\ pc = "exited"

\* C5: a value search returns is BASE_VIDEO_URL, then "?v=", then exactly
\* 11 characters, each a letter, a digit, "-" or "_", that occur together
\* in the fetched page.
C5_ResultShape ==
    searchResult.status = "returned" =>
        LET value == searchResult.value
            n == Len(BASE_VIDEO_URL)
            id == SubSeq(value, n + 4, Len(value))
        IN  /\ Len(value) = n + 3 + 11
            /\ SubSeq(value, 1, n) = BASE_VIDEO_URL
            /\ SubSeq(value, n + 1, n + 3) = <<"?", "v", "=">>
            /\ \A i \in 1..Len(id) : id[i] \in IdChars
            /\ Contains(html_content, id)

C5_Witness ==
    /\ searchResult.status = "returned"
    /\ searchResult.value = BASE_VIDEO_URL \o <<"?","v","=","d","Q","w","4","w","9","W","g","X","c","Q">>

C7_InterruptIsCancelled ==
    interruptedAt \in InSearch \cup {"in_fetch"} =>
        /\ searchResult.status = "raised"
        /\ searchResult.exc = KeyboardInterrupt
        /\ Kind(searchResult.exc) = "Cancelled"
        /\ pc = "exited"
        /\ exitCode = 1
        /\ stdout = <<>>
        /\ stderr # <<>>
        /\ stderr[Len(stderr)] = CancelledLine

C7_Witness ==
    /\ interruptedAt = "in_fetch"
    /\ fetchCount = 1
    /\ exitCode = 1
    /\ stderr[Len(stderr)] = CancelledLine

\* characters urlencode leaves as they are
Unreserved == IdChars \cup {".", "~"}

RECURSIVE PercentBytes(_)
PercentBytes(bs) ==
    IF bs = <<>> THEN <<>> ELSE PercentByte(Head(bs)) \o PercentBytes(Tail(bs))

\* q with every character outside Unreserved replaced: a space by spaceAs,
\* any other by the %XX of its UTF-8 bytes
RECURSIVE EncodedAs(_, _)
EncodedAs(q, spaceAs) ==
    IF q = <<>> THEN <<>>
    ELSE (IF Head(q) \in Unreserved THEN <<Head(q)>>
          ELSE IF Head(q) = " " THEN spaceAs
          ELSE PercentBytes(Utf8(Head(q)))) \o EncodedAs(Tail(q), spaceAs)

SearchUrlPrefix == BASE_SEARCH_URL \o <<"?">> \o SearchQueryKey \o <<"=">>

\* the part of the URL after "?"
QueryString(url) == SubSeq(url, Len(BASE_SEARCH_URL) + 2, Len(url))

Count(s, c) == Cardinality({i \in 1..Len(s) : s[i] = c})

\* C8 as stated: the search URL is the endpoint, "?search_query=" and the
\* query with every reserved character, the space included, percent-encoded.
C8_PercentEncoded ==
    pc = "fetch" =>
        search_url = SearchUrlPrefix \o EncodedAs(query, <<"%", "2", "0">>)

\* C8 amended: the search URL is the endpoint, "?search_query=" and the
\* query with every space replaced by "+" and every other reserved
\* character percent-encoded; the encoded query holds only unreserved
\* characters, "+" and "%XX" escapes, and the URL has one "=" and no "&"
\* after its "?".
C8_FormEncoded ==
    pc = "fetch" =>
        LET enc == SubSeq(search_url, Len(SearchUrlPrefix) + 1, Len(search_url))
        IN  /\ search_url = SearchUrlPrefix \o EncodedAs(query, <<"+">>)
            /\ \A i \in 1..Len(enc) : enc[i] \in Unreserved \cup {"+", "%"}
            /\ Count(enc, "+") = Count(query, " ")
            /\ Count(QueryString(search_url), "=") = 1
            /\ Count(QueryString(search_url), "&") = 0
            /\ Count(search_url, "?") = 1

C8_Witness ==
    /\ pc = "fetch"
    /\ query = <<"a", " ", "&">>
    /\ search_url = SearchUrlPrefix \o <<"a", "+", "%", "2", "6">>

C10_ThirdPatternRedundant ==
    LET two == ExtractWith(SubSeq(patterns, 1, 2), html_content)
    IN  /\ pc = "build_video" => (two.ok /\ two.id = video_id)
        /\ "extract_fail" \in Range(steps) => ~two.ok
        /\ HasMatch(SlashPat, html_content) => HasMatch(WatchPat, html_content)

C10_Witness ==
    /\ pc = "build_video"
    /\ HasMatch(SlashPat, html_content)
    /\ ~HasMatch(JsonPat, html_content)

====
